---- MODULE Spec2Model ----
(***************************************************************************)
(* Model of iam-rucio-sync/sync_iam_rucio.py: one run of the script is     *)
(* get_token, get_list_of_users, sync_accounts, sync_oidc, sync_x509.      *)
(* The IAM server (token endpoint, SCIM listing) and the Rucio store       *)
(* (accounts, quotas, attributes, identities) are the environment: every   *)
(* call to them either answers or raises, chosen nondeterministically.     *)
(***************************************************************************)
EXTENDS Integers, Sequences, FiniteSets, TLC

VARIABLES
    pc,            \* position of the script in __main__
    directory,     \* the users the IAM server holds, in listing order
    reportedTotal, \* the totalResults the IAM server reports on every page
    access_token,  \* __main__'s access_token ("" before get_token returns)
    startIndex,    \* get_list_of_users: startIndex
    users_so_far,  \* get_list_of_users: users_so_far
    iam_users,     \* get_list_of_users: iam_users, then __main__'s iam_users
    response,      \* get_list_of_users: the last decoded page response
    idx,           \* position of the running pass's for loop in iam_users
    accounts,      \* store: the account names that exist
    quotas,        \* store: the <<account, rse>> pairs with a local limit
    attributes,    \* store: the accounts carrying the admin attribute
    identities,    \* store: the identity links
    calls,         \* the external calls of the current run, in issue order
    log,           \* the logging.debug/info lines of the current run
    prevRun        \* summary of the previous run of the script

vars == <<pc, directory, reportedTotal, access_token, startIndex, users_so_far,
          iam_users, response, idx, accounts, quotas, attributes, identities,
          calls, log, prevRun>>

(***************************************************************************)
(* Bounds of the model                                                     *)
(***************************************************************************)
\* longest directory of the provisioning specification
MaxUsers == 2
\* largest directory of the pagination specification
MaxTotal == 201
\* page requests after which a fetch that is still looping is cut off
MaxRequests == 4

(***************************************************************************)
(* Program constants                                                       *)
(***************************************************************************)
\* a page size one short of the script's
count_short == 100 - 1
\* count = 100
count == 100
\* if len(username) > 25
MaxUsernameLen == 25

Min(a, b) == IF a < b THEN a ELSE b

(***************************************************************************)
(* Directory records.  Text that the program takes apart (subject DNs) or  *)
(* builds (identity keys) is a sequence of one-character strings; user     *)
(* names are strings, of which only the length is read.                    *)
(***************************************************************************)
Name25 == "abcdefghijklmnopqrstuvwxy"
Name26 == "abcdefghijklmnopqrstuvwxyz"
Name27 == "abcdefghijklmnopqrstuvwxyz0"

DnAlice1 == <<"C", "N", "=", "A", ",", "O", "=", "X">>
DnAlice2 == <<"C", "N", "=", "B">>
DnLong   == <<"C", "N", "=", "L", ",", " ", "O", "=", "X">>

Cert(dn)  == [hasSubjectDn |-> TRUE, subjectDn |-> dn]
CertNoDn  == [hasSubjectDn |-> FALSE, subjectDn |-> <<>>]

\* a SCIM user record: the fields the script reads
User(name, id, hasIndigo, hasCerts, certs) ==
    [userName |-> name, email |-> name \o "@x", id |-> id,
     hasIndigo |-> hasIndigo, hasCertificates |-> hasCerts,
     certificates |-> certs]

\* short name, two certificates
Alice  == User("alice", <<"1">>, TRUE, TRUE, <<Cert(DnAlice1), Cert(DnAlice2)>>)
\* no vendor extension block
Bob    == User("bob", <<"2">>, FALSE, FALSE, <<>>)
\* name of exactly 25 characters, extension block without a certificates list
Edge25 == User(Name25, <<"3">>, TRUE, FALSE, <<>>)
\* name of 26 characters, a certificate without subject DN and one with
Long26 == User(Name26, <<"4">>, TRUE, TRUE, <<CertNoDn, Cert(DnLong)>>)

\* name of 27 characters, no vendor extension block
Plain27 == User(Name27, <<"5">>, FALSE, FALSE, <<>>)

\* the users the directories of the provisioning specification are made of
SampleUsers == {Alice, Edge25, Long26, Plain27}
\* the users a large directory repeats
SampleSeq   == <<Alice, Bob, Edge25, Long26, Alice, Long26, Bob>>

\* the i-th user of a large directory
UserAt(i) == SampleSeq[((i - 1) % Len(SampleSeq)) + 1]

RECURSIVE SeqsUpTo(_, _)
SeqsUpTo(S, n) ==
    IF n = 0 THEN {<<>>}
    ELSE LET shorter == SeqsUpTo(S, n - 1)
         IN  shorter \cup {Append(s, x) : s \in shorter, x \in S}

\* self.iam_server
iam_server == <<"i", "a", "m">>
\* rse.list_rses(): the ids of the resource scopes of the store
Rses == <<"RSE1", "RSE2">>

(***************************************************************************)
(* The call log                                                            *)
(***************************************************************************)
\* one external call: the operation, the position and name of the user it
\* is for (0 and "" when it is for none), its argument, and whether it
\* returned (ok) or raised
Call(op, i, user, arg, ok) ==
    [op |-> op, i |-> i, user |-> user, arg |-> arg, ok |-> ok]

\* one logging.debug or logging.info line
LogLine(msg, user) == [msg |-> msg, user |-> user]

CallsOf(op) == {k \in DOMAIN calls : calls[k].op = op}
NumCalls(op) == Cardinality(CallsOf(op))

(***************************************************************************)
(* get_token                                                               *)
(***************************************************************************)
\* the token endpoint answers with a token, answers without one, or the
\* request fails; the last two raise out of get_token and end the run
TokenAnswers == {"token", "no_token", "error"}

\* 'access_token' in response, with the test left out
TokenAssumed(answer) == answer # "error"

\* 'access_token' in response
TokenPresent(answer) == answer = "token"

get_token ==
    /\ pc = "token"
    /\ \E answer \in TokenAnswers :
        /\ calls' = Append(calls,
                Call("POST /token", 0, "", answer, answer # "error"))
        /\ IF TokenPresent(answer)
           THEN /\ access_token' = (IF answer = "token" THEN "token" ELSE "")
                /\ pc' = "fetch"
           ELSE /\ access_token' = access_token
                /\ pc' = "crashed"
    /\ UNCHANGED <<directory, reportedTotal, startIndex, users_so_far,
                   iam_users, response, idx, accounts, quotas, attributes,
                   identities, log, prevRun>>

(***************************************************************************)
(* get_list_of_users: one iteration of the while loop                      *)
(***************************************************************************)
\* the server's answer to GET /scim/Users?startIndex=s&count=c
Page(s, c) ==
    LET last == Min(s + c - 1, Len(directory))
        res  == IF s > Len(directory) THEN <<>> ELSE SubSeq(directory, s, last)
    IN  [Resources |-> res, itemsPerPage |-> Len(res),
         totalResults |-> reportedTotal]

\* the loop test with <= in place of <
MorePagesInclusive(soFar, resp) == soFar <= resp.totalResults

\* users_so_far < response['totalResults']
MorePages(soFar, resp) == soFar < resp.totalResults

get_list_of_users ==
    /\ pc = "fetch"
    /\ NumCalls("GET /scim/Users") < MaxRequests
    /\ \E answered \in BOOLEAN :
        LET resp  == Page(startIndex, count)
            soFar == users_so_far + resp.itemsPerPage
        IN  /\ calls' = Append(calls,
                    Call("GET /scim/Users", 0, "", <<startIndex, count>>,
                         answered))
            /\ IF ~answered
               THEN /\ pc' = "crashed"
                    /\ UNCHANGED <<response, iam_users, users_so_far,
                                   startIndex>>
               ELSE /\ response' = [itemsPerPage |-> resp.itemsPerPage,
                                    totalResults |-> resp.totalResults]
                    /\ iam_users' = iam_users \o resp.Resources
                    /\ users_so_far' = soFar
                    /\ IF MorePages(soFar, resp)
                       THEN /\ startIndex' = startIndex + count
                            /\ pc' = "fetch"
                       ELSE /\ startIndex' = startIndex
                            /\ pc' = "accounts_begin"
    /\ UNCHANGED <<directory, reportedTotal, access_token, idx, accounts,
                   quotas, attributes, identities, log, prevRun>>

(***************************************************************************)
(* The store, as the passes use it                                         *)
(***************************************************************************)
\* the probe answering "absent" whatever the store holds
account_exists_never(username) == FALSE

\* account.account_exists(InternalAccount(username))
account_exists(username) == username \in accounts

\* an identity link of the store
Link(identity, type, account) ==
    [identity |-> identity, type |-> type, account |-> account]

\* identity.add_account_identity returns (rather than raises) when the call
\* itself goes through, the account exists and the link is not there yet
LinkAccepted(ids, identity, type, account, callOk) ==
    /\ callOk
    /\ account \in accounts
    /\ Link(identity, type, account) \notin ids

\* get_session(); session.connection() at the head of each pass
BeginPass(from, to) ==
    /\ pc = from
    /\ \E ok \in BOOLEAN :
        /\ calls' = Append(calls, Call("get_session", 0, "", <<>>, ok))
        /\ pc' = IF ok THEN to ELSE "crashed"
    /\ idx' = 1
    /\ UNCHANGED <<directory, reportedTotal, access_token, startIndex,
                   users_so_far, iam_users, response, accounts, quotas,
                   attributes, identities, log, prevRun>>

\* the for loop of a pass is exhausted and the pass returns to __main__
EndPass(from, to) ==
    /\ pc = from
    /\ idx > Len(iam_users)
    /\ pc' = to
    /\ UNCHANGED <<directory, reportedTotal, access_token, startIndex,
                   users_so_far, iam_users, response, idx, accounts, quotas,
                   attributes, identities, calls, log, prevRun>>

\* len(username) > 25 with >= in place of >
TooLongInclusive(username) == Len(username) >= MaxUsernameLen

\* len(username) > 25
TooLong(username) == Len(username) > MaxUsernameLen

(***************************************************************************)
(* sync_accounts: one iteration of the for loop                            *)
(***************************************************************************)
\* where a store call of the iteration raises: nowhere, at one of the calls
\* that are made once, or at the k-th quota grant
Faults ==
    [at : {"none", "account_exists", "add_account", "list_rses"}, k : {0}]
        \cup [at : {"set_local_account_limit"}, k : 1..Len(Rses)]

\* the quota grants issued for a new account when the k-th raises
\* (k = 0: none raises): for rse_obj in rse.list_rses()
GrantCalls(i, username, k) ==
    LET n == IF k = 0 THEN Len(Rses) ELSE k
    IN  [j \in 1..n |->
            Call("set_local_account_limit", i, username, Rses[j], j # k)]

\* an iteration that calls nothing and changes nothing
NoEffect == [calls |-> <<>>, log |-> <<>>, created |-> FALSE,
             granted |-> {}, attribute |-> FALSE, raised |-> FALSE]

\* the iteration for an account found existing, with the quota loop moved
\* out of the if block
AccountPresentRegrant(i, username) ==
    [NoEffect EXCEPT
        !.calls = <<Call("account_exists", i, username, "exists", TRUE)>>
                    \o GrantCalls(i, username, 0),
        !.granted = {Rses[j] : j \in 1..Len(Rses)}]

\* the iteration for an account found existing: the if block is skipped
AccountPresent(i, username) ==
    [NoEffect EXCEPT
        !.calls = <<Call("account_exists", i, username, "exists", TRUE)>>]

\* a failed add_account_attribute with the try/except left out
AttributeFailureUncaught(ok) == ~ok

\* try: add_account_attribute(...) except: pass -- whether a failed attach
\* leaves the loop
AttributeFailurePropagates(ok) == FALSE

\* one iteration for user number i under fault f; attrOk tells whether
\* add_account_attribute returns.  The result lists the calls issued and
\* the lines logged, tells what the store gained and whether an exception
\* left the loop.
AccountIteration(i, user, f, attrOk) ==
    LET username == user.userName
        nothing  == NoEffect
        probe(ok, ret) == Call("account_exists", i, username, ret, ok)
        create(ok)     == Call("add_account", i, username, user.email, ok)
        list(ok)       == Call("list_rses", i, username, "", ok)
        attr           == Call("add_account_attribute", i, username, "admin",
                               attrOk)
        made           == LogLine("Created account", username)
        grants         == GrantCalls(i, username, f.k)
    IN  IF TooLong(username) THEN nothing
        ELSE IF f.at = "account_exists"
        THEN [nothing EXCEPT !.calls = <<probe(FALSE, "")>>, !.raised = TRUE]
        ELSE IF account_exists(username)
        THEN AccountPresent(i, username)
        ELSE IF f.at = "add_account" \/ username \in accounts
        THEN [nothing EXCEPT !.calls = <<probe(TRUE, "absent"), create(FALSE)>>,
                             !.raised = TRUE]
        ELSE IF f.at = "list_rses"
        THEN [nothing EXCEPT !.calls = <<probe(TRUE, "absent"), create(TRUE),
                                         list(FALSE)>>,
                             !.log = <<made>>,
                             !.created = TRUE, !.raised = TRUE]
        ELSE IF f.at = "set_local_account_limit"
        THEN [nothing EXCEPT !.calls = <<probe(TRUE, "absent"), create(TRUE),
                                         list(TRUE)>> \o grants,
                             !.log = <<made>>,
                             !.created = TRUE,
                             !.granted = {Rses[j] : j \in 1..(f.k - 1)},
                             !.raised = TRUE]
        ELSE [nothing EXCEPT !.calls = <<probe(TRUE, "absent"), create(TRUE),
                                         list(TRUE)>> \o grants \o <<attr>>,
                             !.log = <<made>>,
                             !.created = TRUE,
                             !.granted = {Rses[j] : j \in 1..Len(Rses)},
                             !.attribute = attrOk,
                             !.raised = AttributeFailurePropagates(attrOk)]

sync_accounts_begin == BeginPass("accounts_begin", "accounts")

sync_accounts ==
    /\ pc = "accounts"
    /\ idx <= Len(iam_users)
    /\ \E f \in Faults, attrOk \in BOOLEAN :
        LET user == iam_users[idx]
            r    == AccountIteration(idx, user, f, attrOk)
        IN  /\ calls' = calls \o r.calls
            /\ log' = log \o r.log
            /\ accounts' = IF r.created THEN accounts \cup {user.userName}
                           ELSE accounts
            /\ quotas' = quotas \cup {<<user.userName, g>> : g \in r.granted}
            /\ attributes' = IF r.attribute
                             THEN attributes \cup {user.userName}
                             ELSE attributes
            /\ IF r.raised
               THEN pc' = "crashed" /\ idx' = idx
               ELSE pc' = pc /\ idx' = idx + 1
    /\ UNCHANGED <<directory, reportedTotal, access_token, startIndex,
                   users_so_far, iam_users, response, identities, prevRun>>

\* sync_accounts returning before its loop is exhausted
sync_accounts_return_early ==
    /\ pc = "accounts"
    /\ pc' = "oidc_begin"
    /\ UNCHANGED <<directory, reportedTotal, access_token, startIndex,
                   users_so_far, iam_users, response, idx, accounts, quotas,
                   attributes, identities, calls, log, prevRun>>

sync_accounts_return == EndPass("accounts", "oidc_begin")

(***************************************************************************)
(* sync_oidc: one iteration of the for loop                                *)
(***************************************************************************)
\* "SUB={}, ISS={}".format(user_subject, self.iam_server)
OidcIdentity(user_subject) ==
    <<"S", "U", "B", "=">> \o user_subject
        \o <<",", " ", "I", "S", "S", "=">> \o iam_server

\* a failed add_account_identity with the try/except left out
LinkFailureUncaught(ok) == ~ok

\* try: add_account_identity(...) except: pass -- whether a failed link
\* leaves the loop
LinkFailurePropagates(ok) == FALSE

sync_oidc_begin == BeginPass("oidc_begin", "oidc")

sync_oidc ==
    /\ pc = "oidc"
    /\ idx <= Len(iam_users)
    /\ \E callOk \in BOOLEAN :
        LET user     == iam_users[idx]
            username == user.userName
            key      == OidcIdentity(user.id)
            ok       == LinkAccepted(identities, key, "OIDC", username, callOk)
        IN  IF TooLong(username)
            THEN /\ idx' = idx + 1
                 /\ UNCHANGED <<pc, calls, log, identities>>
            ELSE /\ calls' = Append(calls,
                        Call("add_account_identity", idx, username,
                             <<"OIDC", key>>, ok))
                 /\ identities' = IF ok
                        THEN identities \cup {Link(key, "OIDC", username)}
                        ELSE identities
                 /\ log' = IF ok
                        THEN Append(log, LogLine("Added OIDC identity", username))
                        ELSE log
                 /\ IF LinkFailurePropagates(ok)
                    THEN pc' = "crashed" /\ idx' = idx
                    ELSE pc' = pc /\ idx' = idx + 1
    /\ UNCHANGED <<directory, reportedTotal, access_token, startIndex,
                   users_so_far, iam_users, response, accounts, quotas,
                   attributes, prevRun>>

sync_oidc_return == EndPass("oidc", "x509_begin")

(***************************************************************************)
(* make_gridmap_compatible                                                 *)
(***************************************************************************)
\* str.split(sep): the pieces of s between the separators, empty ones kept
RECURSIVE SplitFrom(_, _, _, _, _)
SplitFrom(s, sep, i, piece, done) ==
    IF i > Len(s) THEN Append(done, piece)
    ELSE IF s[i] = sep
         THEN SplitFrom(s, sep, i + 1, <<>>, Append(done, piece))
         ELSE SplitFrom(s, sep, i + 1, Append(piece, s[i]), done)

Split(s, sep) == SplitFrom(s, sep, 1, <<>>, <<>>)

\* the list left in its order
ReverseNot(l) == l

\* list.reverse()
Reverse(l) == [i \in 1..Len(l) |-> l[Len(l) + 1 - i]]

\* sep.join(l)
RECURSIVE Join(_, _)
Join(l, sep) ==
    IF Len(l) = 0 THEN <<>>
    ELSE IF Len(l) = 1 THEN l[1]
    ELSE l[1] \o <<sep>> \o Join(Tail(l), sep)

make_gridmap_compatible(certificate) ==
    <<"/">> \o Join(Reverse(Split(certificate, ",")), "/")

(***************************************************************************)
(* sync_x509: one iteration of the outer for loop                          *)
(***************************************************************************)
\* the inner loop running over the first certificate only
CertificatesFirstOnly(user) ==
    IF user.hasIndigo /\ user.hasCertificates /\ Len(user.certificates) > 0
    THEN <<user.certificates[1]>> ELSE <<>>

\* the certificates the inner loop runs over: none without the extension
\* block or without its certificates list
CertificatesOf(user) ==
    IF user.hasIndigo /\ user.hasCertificates THEN user.certificates ELSE <<>>

\* the inner loop from certificate k on; failing is the set of certificate
\* positions whose add_account_identity call raises
RECURSIVE X509Certificates(_, _, _, _, _)
X509Certificates(i, user, k, failing, acc) ==
    LET certs == CertificatesOf(user)
    IN  IF k > Len(certs) \/ acc.raised THEN acc
        ELSE IF ~certs[k].hasSubjectDn
        THEN X509Certificates(i, user, k + 1, failing, acc)
        ELSE LET subjectDn == make_gridmap_compatible(certs[k].subjectDn)
                 ok == LinkAccepted(acc.identities, subjectDn, "X509",
                                    user.userName, k \notin failing)
             IN  X509Certificates(i, user, k + 1, failing,
                    [calls |-> Append(acc.calls,
                        Call("add_account_identity", i, user.userName,
                             <<"X509", subjectDn>>, ok)),
                     identities |-> IF ok
                        THEN acc.identities
                                \cup {Link(subjectDn, "X509", user.userName)}
                        ELSE acc.identities,
                     log |-> IF ok
                        THEN Append(acc.log,
                                LogLine("Added X509 identity", user.userName))
                        ELSE acc.log,
                     raised |-> LinkFailurePropagates(ok)])

sync_x509_begin == BeginPass("x509_begin", "x509")

sync_x509 ==
    /\ pc = "x509"
    /\ idx <= Len(iam_users)
    /\ \E failing \in SUBSET (1..Len(CertificatesOf(iam_users[idx]))) :
        LET r == X509Certificates(idx, iam_users[idx], 1, failing,
                    [calls |-> calls, identities |-> identities, log |-> log,
                     raised |-> FALSE])
        IN  /\ calls' = r.calls
            /\ identities' = r.identities
            /\ log' = r.log
            /\ IF r.raised
               THEN pc' = "crashed" /\ idx' = idx
               ELSE pc' = pc /\ idx' = idx + 1
    /\ UNCHANGED <<directory, reportedTotal, access_token, startIndex,
                   users_so_far, iam_users, response, accounts, quotas,
                   attributes, prevRun>>

\* the loop is exhausted, sync_x509 returns and __main__ logs its last line
sync_x509_return ==
    /\ pc = "x509"
    /\ idx > Len(iam_users)
    /\ pc' = "done"
    /\ log' = Append(log, LogLine("Successfully completed", ""))
    /\ UNCHANGED <<directory, reportedTotal, access_token, startIndex,
                   users_so_far, iam_users, response, idx, accounts, quotas,
                   attributes, identities, calls, prevRun>>

(***************************************************************************)
(* Initial states                                                          *)
(***************************************************************************)
NoResponse == [itemsPerPage |-> 0, totalResults |-> 0]
\* before the first run: no pass has run, and the store was empty
NoPrevRun  == [accountsDone |-> FALSE, accounts |-> {}, quotas |-> {},
               attributes |-> {}, identities |-> {}]

\* what the server may report as totalResults for a directory of n users:
\* the true count, or one more or one less (an inconsistent total)
Totals(n) == {t \in {n - 1, n, n + 1} : t >= 0}

InitRun ==
    /\ pc = "token"
    /\ access_token = ""
    /\ startIndex = 1
    /\ users_so_far = 0
    /\ iam_users = <<>>
    /\ response = NoResponse
    /\ idx = 0
    /\ calls = <<>>
    /\ log = <<LogLine("Initializing", "")>>

InitStore ==
    /\ accounts = {}
    /\ quotas = {}
    /\ attributes = {}
    /\ identities = {}
    /\ prevRun = NoPrevRun

InitFetch ==
    /\ \E T \in 0..MaxTotal :
        /\ directory = [i \in 1..T |-> UserAt(i)]
        /\ reportedTotal \in Totals(T)
    /\ InitRun
    /\ InitStore

NextFetch ==
    \/ get_token
    \/ get_list_of_users

\* token acquisition and the paginated fetch alone, over large directories
SpecFetch == InitFetch /\ [][NextFetch]_vars

(***************************************************************************)
(* The script run again, against the same directory and the same store     *)
(***************************************************************************)
\* sync_accounts returned to __main__ in this run
AccountsPassDone == pc = "oidc_begin" \/ NumCalls("get_session") >= 2

run_again ==
    /\ pc \in {"done", "crashed"}
    /\ prevRun' = [accountsDone |-> AccountsPassDone, accounts |-> accounts,
                   quotas |-> quotas, attributes |-> attributes,
                   identities |-> identities]
    /\ pc' = "token"
    /\ access_token' = ""
    /\ startIndex' = 1
    /\ users_so_far' = 0
    /\ iam_users' = <<>>
    /\ response' = NoResponse
    /\ idx' = 0
    /\ calls' = <<>>
    /\ log' = <<LogLine("Initializing", "")>>
    /\ UNCHANGED <<directory, reportedTotal, accounts, quotas, attributes,
                   identities>>

\* a directory this small fits one page, so that a total reported too low
\* changes nothing; the total is the true one or one too many
Init ==
    /\ directory \in SeqsUpTo(SampleUsers, MaxUsers)
    /\ reportedTotal \in {Len(directory), Len(directory) + 1}
    /\ InitRun
    /\ InitStore

Next ==
    \/ get_token
    \/ get_list_of_users
    \/ sync_accounts_begin
    \/ sync_accounts
    \/ sync_accounts_return
    \/ sync_oidc_begin
    \/ sync_oidc
    \/ sync_oidc_return
    \/ sync_x509_begin
    \/ sync_x509
    \/ sync_x509_return
    \/ run_again

\* whole runs of the script, repeated, over small directories
Spec == Init /\ [][Next]_vars

(***************************************************************************)
(* Runs over a directory of one user whose certificate carries any subject *)
(* DN up to a length                                                       *)
(***************************************************************************)
\* longest subject DN drawn from the alphabet
MaxDnLen == 4
DnAlphabet == {"a", ",", " "}

\* CN=Alice,OU=Org,O=Example
DnExample1 ==
    <<"C", "N", "=", "A", "l", "i", "c", "e", ",", "O", "U", "=", "O", "r",
      "g", ",", "O", "=", "E", "x", "a", "m", "p", "l", "e">>
\* CN=Bob
DnExample2 ==
    <<"C", "N", "=", "B", "o", "b">>

DnInputs == SeqsUpTo(DnAlphabet, MaxDnLen) \cup {DnExample1, DnExample2}

DnUser(dn) == User("dn", <<"9">>, TRUE, TRUE, <<Cert(dn)>>)

InitDn ==
    /\ \E dn \in DnInputs : directory = <<DnUser(dn)>>
    /\ reportedTotal = 1
    /\ InitRun
    /\ InitStore

\* whole runs of the script over one user with an arbitrary subject DN
SpecDn == InitDn /\ [][Next]_vars

(***************************************************************************)
(* Pagination claims                                                       *)
(***************************************************************************)
\* the server is consistent: it reports the true number of users
Consistent == reportedTotal = Len(directory)
\* ceil(T / P)
CeilDiv(T, P) == (T + P - 1) \div P
PageRequests == NumCalls("GET /scim/Users")
\* get_list_of_users has just returned its list
FetchReturned == pc = "accounts_begin"
\* every page request so far was answered
AllAnswered == \A k \in CallsOf("GET /scim/Users") : calls[k].ok

\* C1 as stated: against a consistent directory of T users the fetch returns
\* after exactly ceil(T/P) page requests with exactly the T records.
C1_CeilRequests ==
    (Consistent /\ FetchReturned) =>
        /\ PageRequests = CeilDiv(Len(directory), count)
        /\ iam_users = directory

\* C1 amended: against a consistent directory of T users the fetch makes
\* exactly max(1, ceil(T/P)) page requests (one also when T = 0), returns
\* exactly the T records in order, and while it is still looping it has made
\* fewer requests than that, so it ends, partial last page or not.
ExpectedRequests ==
    IF Len(directory) = 0 THEN 1 ELSE CeilDiv(Len(directory), count)

C1_Pagination ==
    Consistent =>
        /\ FetchReturned =>
              /\ PageRequests = ExpectedRequests
              /\ iam_users = directory
              /\ Len(iam_users) = reportedTotal
        /\ pc = "fetch" =>
              /\ PageRequests < ExpectedRequests
              /\ PageRequests < MaxRequests
              /\ startIndex = 1 + PageRequests * count

\* C1 witness: a three-page fetch whose last page is partial has returned
C1_Witness ==
    /\ Consistent
    /\ FetchReturned
    /\ PageRequests = 3
    /\ Len(iam_users) % count # 0
    /\ response.itemsPerPage < count

\* C2 as stated: once a page has brought zero new items while the cumulative
\* count is below the reported total, the fetch has ended with an error
\* rather than being about to request a further page.
C2_ZeroPageEndsFetch ==
    (/\ PageRequests > 0
     /\ AllAnswered
     /\ response.itemsPerPage = 0
     /\ users_so_far < response.totalResults) => pc = "crashed"

(***************************************************************************)
(* Provisioning claims                                                     *)
(***************************************************************************)
StoreOps == {"get_session", "account_exists", "add_account", "list_rses",
             "set_local_account_limit", "add_account_attribute",
             "add_account_identity"}
AccountOps == {"account_exists", "add_account", "list_rses",
               "set_local_account_limit", "add_account_attribute"}

\* the calls of the current run for user number i
CallsFor(op, i) == {k \in CallsOf(op) : calls[k].i = i}
LinkCalls(type) == {k \in CallsOf("add_account_identity") : calls[k].arg[1] = type}
LinkCallsFor(type, i) == {k \in LinkCalls(type) : calls[k].i = i}
\* the username is within the store's length bound
Eligible(user) == Len(user.userName) <= MaxUsernameLen
\* the certificates of a user that carry a subject DN
DnCertificates(user) ==
    {k \in DOMAIN CertificatesOf(user) : CertificatesOf(user)[k].hasSubjectDn}
OidcPassDone == pc = "x509_begin" \/ NumCalls("get_session") >= 3
X509PassDone == pc = "done"

\* C3 as stated: no store call of any pass names a user whose username is
\* longer than 25 characters.
C3_LongNamesNeverSubmitted ==
    \A k \in DOMAIN calls :
        calls[k].op \in StoreOps => Len(calls[k].user) <= MaxUsernameLen

\* C4: once a run has taken sync_accounts through the whole list, the next
\* run over the same list issues no add_account call and, when its own
\* account pass is through, every eligible username has its account; no run
\* creates an account twice, also when a username occurs twice in the list.
C4_AccountsIdempotent ==
    /\ prevRun.accountsDone =>
          /\ NumCalls("add_account") = 0
          /\ AccountsPassDone =>
                \A i \in DOMAIN iam_users :
                    Eligible(iam_users[i]) => iam_users[i].userName \in accounts
    /\ \A j, k \in CallsOf("add_account") :
          (calls[j].ok /\ calls[k].ok /\ calls[j].user = calls[k].user) => j = k
    /\ AccountsPassDone =>
          \A i \in DOMAIN iam_users :
              Eligible(iam_users[i]) => iam_users[i].userName \in accounts

\* C4 witness: the second account pass over a list that names one eligible
\* user twice is through
C4_Witness ==
    /\ prevRun.accountsDone
    /\ AccountsPassDone
    /\ Len(iam_users) = 2
    /\ iam_users[1] = iam_users[2]
    /\ Eligible(iam_users[1])
    /\ CallsFor("account_exists", 2) # {}

\* C5 as stated: quota grants and the attribute attach are issued only in
\* the iteration that created the account, and every account created gets one
\* quota grant for every resource scope.
C5_QuotaOnCreation ==
    /\ \A k \in CallsOf("set_local_account_limit")
               \cup CallsOf("add_account_attribute") :
          \E j \in CallsFor("add_account", calls[k].i) : j < k /\ calls[j].ok
    /\ \A j \in CallsOf("add_account") :
          calls[j].ok =>
              \A r \in DOMAIN Rses :
                  Cardinality({k \in CallsFor("set_local_account_limit",
                                              calls[j].i) :
                                  calls[k].arg = Rses[r]}) = 1

\* C6: stage order.  Nothing is requested before the token call; a page is
\* requested only with the token; a store call comes only after every page
\* request of the run; an identity link comes only after the account pass
\* has gone through the whole list, and the X509 links after the OIDC pass.
C6_StageOrder ==
    /\ calls # <<>> => calls[1].op = "POST /token"
    /\ NumCalls("POST /token") <= 1
    /\ NumCalls("GET /scim/Users") > 0 => access_token = "token"
    /\ pc \in {"token", "fetch"} => \A k \in DOMAIN calls : calls[k].op \notin StoreOps
    /\ \A k \in DOMAIN calls :
          calls[k].op \in StoreOps =>
              /\ \A j \in CallsOf("GET /scim/Users") : j < k
              /\ \E j \in CallsOf("GET /scim/Users") : calls[j].ok
              /\ Len(iam_users) = users_so_far
    /\ LinkCalls("OIDC") \cup LinkCalls("X509") # {} =>
          /\ AccountsPassDone
          /\ \A i \in DOMAIN iam_users :
                Eligible(iam_users[i]) => CallsFor("account_exists", i) # {}
          /\ \A k \in DOMAIN calls :
                calls[k].op \in AccountOps =>
                    \A j \in LinkCalls("OIDC") \cup LinkCalls("X509") : k < j
    /\ LinkCalls("X509") # {} =>
          /\ OidcPassDone
          /\ \A j \in LinkCalls("OIDC"), k \in LinkCalls("X509") : j < k

\* C6 witness: a run is complete in which accounts were created and both
\* kinds of identity were linked
C6_Witness ==
    /\ pc = "done"
    /\ Len(iam_users) = 2
    /\ \E k \in CallsOf("add_account") : calls[k].ok /\ calls[k].i = 2
    /\ LinkCalls("OIDC") # {}
    /\ LinkCalls("X509") # {}

\* a call of the account pass that raised out of it
AccountPassFailures ==
    {k \in DOMAIN calls :
        /\ calls[k].op \in {"account_exists", "add_account",
                            "set_local_account_limit"}
        /\ ~calls[k].ok}

\* C7 as stated: when a store call of the account pass has failed, the run
\* does not end there: it ends only after the OIDC pass has been entered;
\* and there is one directory fetch per run.
C7_PassesIndependent ==
    /\ (AccountPassFailures # {} /\ pc = "crashed") =>
          NumCalls("get_session") >= 2
    /\ \A j, k \in CallsOf("GET /scim/Users") :
          calls[j].arg = calls[k].arg => j = k

\* C8 as stated: when account creation or a quota grant has failed for one
\* user and the account pass is over, every eligible user after that one has
\* been probed.
C8_AccountFailureIsolated ==
    \A k \in CallsOf("add_account") \cup CallsOf("set_local_account_limit") :
        (~calls[k].ok /\ pc # "accounts") =>
            \A i \in DOMAIN iam_users :
                (i > calls[k].i /\ Eligible(iam_users[i])) =>
                    CallsFor("account_exists", i) # {}

\* the users the run's output reports a link failure for: the lines
\* 'Did not add OIDC/X509 identify for User ...'
ReportedLinkFailures ==
    {log[l].user : l \in {m \in DOMAIN log :
        log[m].msg \in {"Did not add OIDC identity",
                        "Did not add X509 identity"}}}

\* the link attempts a pass owes to user number i whatever failed before
OidcAttemptsOwed(i) == IF Eligible(iam_users[i]) THEN 1 ELSE 0
X509AttemptsOwed(i) == Cardinality(DnCertificates(iam_users[i]))

\* C9, first part: a failed link ends neither pass: the OIDC pass makes its
\* one attempt for every eligible user and the X509 pass one attempt for
\* every certificate with a subject DN, the users and certificates after a
\* failed one included.
LinkFailuresIsolated ==
    /\ \A i \in DOMAIN iam_users :
          /\ (OidcPassDone \/ (pc = "oidc" /\ i < idx)) =>
                Cardinality(LinkCallsFor("OIDC", i)) = OidcAttemptsOwed(i)
          /\ (X509PassDone \/ (pc = "x509" /\ i < idx)) =>
                Cardinality(LinkCallsFor("X509", i)) = X509AttemptsOwed(i)
    /\ pc = "crashed" => calls[Len(calls)].op # "add_account_identity"

C10_NoTokenNoRun ==
    access_token = "" =>
        /\ \A k \in DOMAIN calls : calls[k].op = "POST /token"
        /\ calls # <<>> => pc = "crashed"
        /\ iam_users = <<>>

\* C10 witness: the token endpoint answered without access_token
C10_Witness ==
    /\ Len(calls) = 1
    /\ calls[1].op = "POST /token"
    /\ calls[1].arg = "no_token"
    /\ pc = "crashed"

(***************************************************************************)
(* Run outcome, certificates, attribute, probes, later runs                *)
(***************************************************************************)
\* the calls of the run that changed the store
Mutations ==
    {k \in DOMAIN calls :
        /\ calls[k].ok
        /\ calls[k].op \in {"add_account", "set_local_account_limit",
                            "add_account_attribute", "add_account_identity"}}

\* C11 as stated: a run that has ended either went through all three passes
\* for every fetched user, or it ended early with zero provisioning
\* performed; it never ends having changed the store on the way.
C11_AllOrNothing ==
    /\ pc = "done" =>
          \A i \in DOMAIN iam_users :
              /\ Eligible(iam_users[i]) => CallsFor("account_exists", i) # {}
              /\ Cardinality(LinkCallsFor("OIDC", i)) = OidcAttemptsOwed(i)
    /\ pc = "crashed" => Mutations = {}

\* the certificate records a directory user carries (N of C12)
CertificateRecords(user) ==
    IF user.hasIndigo /\ user.hasCertificates THEN user.certificates ELSE <<>>
HasSubjectDn(certificate) == certificate.hasSubjectDn
\* the keys of the user's certificates that carry a subject DN, in list order
OwedX509Keys(user) ==
    LET withDn == SelectSeq(CertificateRecords(user), HasSubjectDn)
    IN  [k \in DOMAIN withDn |-> make_gridmap_compatible(withDn[k].subjectDn)]
\* the keys of the X509 link attempts made for user number i, in call order
IsX509CallFor(c, i) ==
    c.op = "add_account_identity" /\ c.i = i /\ c.arg[1] = "X509"
X509KeysFor(i) ==
    LET mine == SelectSeq(calls, LAMBDA c : IsX509CallFor(c, i))
    IN  [k \in DOMAIN mine |-> mine[k].arg[2]]
\* the X509 pass is through with user number i
X509Through(i) == X509PassDone \/ (pc = "x509" /\ i < idx)

\* C12 as stated: a user with N certificate records gets exactly N X509
\* link attempts.
C12_AttemptPerRecord ==
    \A i \in DOMAIN iam_users :
        X509Through(i) =>
            Len(X509KeysFor(i)) = Len(CertificateRecords(iam_users[i]))

\* C12 amended: a user gets exactly one X509 link attempt per certificate
\* record that carries a subjectDn, in list order (none without the extension
\* block, without a certificates list, or for a record without subjectDn),
\* whatever the other users carry and whichever earlier attempts failed.
C12_AttemptPerSubjectDn ==
    \A i \in DOMAIN iam_users :
        X509Through(i) => X509KeysFor(i) = OwedX509Keys(iam_users[i])

\* C12 witness: the run is complete; one user had two certificates of which
\* the first link failed, one had a record without subjectDn, and one had no
\* extension block
C12_Witness ==
    /\ pc = "done"
    /\ \E j, k \in LinkCalls("X509") :
          j < k /\ calls[j].i = calls[k].i /\ ~calls[j].ok
    /\ \E i \in DOMAIN iam_users :
          \/ ~iam_users[i].hasIndigo
          \/ Len(OwedX509Keys(iam_users[i])) < Len(CertificateRecords(iam_users[i]))

\* the positions that bound the comma-separated components of s
Boundaries(s) == {i \in 1..Len(s) : s[i] = ","} \cup {0, Len(s) + 1}
\* the j-th boundary from the left, the 0-th being position 0
Boundary(s, j) ==
    CHOOSE i \in Boundaries(s) :
        Cardinality({b \in Boundaries(s) : b < i}) = j
NumComponents(s) == Cardinality(Boundaries(s)) - 1
\* the j-th comma-separated component of s, unchanged
Component(s, j) == SubSeq(s, Boundary(s, j - 1) + 1, Boundary(s, j) - 1)
\* '/' cj '/' ... '/' c1
RECURSIVE SlashedDownFrom(_, _)
SlashedDownFrom(s, j) ==
    IF j = 0 THEN <<>>
    ELSE <<"/">> \o Component(s, j) \o SlashedDownFrom(s, j - 1)

\* /O=Example/OU=Org/CN=Alice
KeyExample1 ==
    <<"/", "O", "=", "E", "x", "a", "m", "p", "l", "e", "/", "O", "U", "=",
      "O", "r", "g", "/", "C", "N", "=", "A", "l", "i", "c", "e">>
\* /CN=Bob
KeyExample2 ==
    <<"/", "C", "N", "=", "B", "o", "b">>

\* the subject DN behind the X509 link attempt calls[k], in a directory
\* whose users carry one certificate each
SubjectDnOf(k) == iam_users[calls[k].i].certificates[1].subjectDn

\* C13: make_gridmap_compatible answers for every subject DN, and the key it
\* gives for the components c1,...,cn is '/' cn '/' ... '/' c1, each
\* component unchanged; the two examples of the claim come out as stated.
C13_GridmapKey ==
    /\ \A i \in DOMAIN iam_users :
          X509Through(i) => Cardinality(LinkCallsFor("X509", i)) = 1
    /\ \A k \in LinkCalls("X509") :
          LET dn  == SubjectDnOf(k)
              key == calls[k].arg[2]
          IN  /\ key = SlashedDownFrom(dn, NumComponents(dn))
              /\ Len(key) = Len(dn) + 1
              /\ dn = DnExample1 => key = KeyExample1
              /\ dn = DnExample2 => key = KeyExample2

\* C13 witness: the link for the three-component example has been attempted
C13_Witness ==
    /\ pc = "done"
    /\ \E k \in LinkCalls("X509") :
          SubjectDnOf(k) = DnExample1 /\ calls[k].arg[2] = KeyExample1

\* C14: a failed admin-attribute attach never ends the run: the account
\* stays created with a quota for every resource scope, the loop has moved
\* on past that user, and a run that ended in a crash did not end there.
C14_AttributeFailureSwallowed ==
    \A k \in CallsOf("add_account_attribute") :
        ~calls[k].ok =>
            /\ calls[k].user \in accounts
            /\ \A r \in DOMAIN Rses : <<calls[k].user, Rses[r]>> \in quotas
            /\ pc = "accounts" => idx > calls[k].i
            /\ pc = "crashed" => k < Len(calls)
            /\ (AccountsPassDone \/ (pc = "accounts" /\ idx > calls[k].i + 1)) =>
                  \A i \in DOMAIN iam_users :
                      (i = calls[k].i + 1 /\ Eligible(iam_users[i])) =>
                          CallsFor("account_exists", i) # {}

\* C14 witness: the attach failed for the first user and the second user
\* got an account afterwards
C14_Witness ==
    /\ \E k \in CallsFor("add_account_attribute", 1) : ~calls[k].ok
    /\ \E k \in CallsFor("add_account", 2) : calls[k].ok
    /\ iam_users[1].userName \in accounts

\* the existence probes the script issues
ProbeOps == {"account_exists"}
\* the identity link that the attempt calls[k] asks for
LinkOf(k) == Link(calls[k].arg[2], calls[k].arg[1], calls[k].user)
\* calls[k] directly follows a probe for the same user
FollowsProbe(k) ==
    /\ k > 1
    /\ calls[k - 1].op \in ProbeOps
    /\ calls[k - 1].i = calls[k].i
    /\ calls[k - 1].ok
\* every account-creation call directly follows a probe for the same user
\* that answered "absent"
CreationsProbed ==
    \A k \in CallsOf("add_account") :
        FollowsProbe(k) /\ calls[k - 1].arg = "absent"
\* no account and no identity link is created that the store held when the
\* run began or that the run created before
NothingCreatedTwice ==
    /\ \A k \in CallsOf("add_account") :
          /\ calls[k].user \notin prevRun.accounts
          /\ \A j \in CallsOf("add_account") :
                (j < k /\ calls[j].user = calls[k].user) => ~calls[j].ok
          /\ calls[k].ok => calls[k].user \in accounts
    /\ \A k \in CallsOf("add_account_identity") :
          calls[k].ok =>
              /\ LinkOf(k) \notin prevRun.identities
              /\ LinkOf(k) \in identities
              /\ \A j \in CallsOf("add_account_identity") :
                    (j < k /\ calls[j].ok) => LinkOf(j) # LinkOf(k)

\* C15 as stated: account creations and identity-link creations alike directly
\* follow an existence probe, and nothing is created twice.
C15_AlwaysProbes ==
    /\ CreationsProbed
    /\ \A k \in CallsOf("add_account_identity") : FollowsProbe(k)
    /\ NothingCreatedTwice

\* C15 amended: every account creation directly follows an "absent" probe
\* for the same user; identity links are attempted without any probe (the
\* call before an attempt is the pass's session call or another attempt) and
\* the store's refusal of an existing link is what keeps a re-run from
\* creating a duplicate; nothing is created twice.
C15_ProbesAccountsOnly ==
    /\ CreationsProbed
    /\ \A k \in CallsOf("add_account_identity") :
          /\ k > 1
          /\ calls[k - 1].op \in {"get_session", "add_account_identity"}
          /\ LinkOf(k) \in prevRun.identities => ~calls[k].ok
    /\ NothingCreatedTwice

\* C15 witness: a later run is complete that found an account existing and
\* attempted a link the store already held
C15_Witness ==
    /\ pc = "done"
    /\ \E k \in CallsOf("account_exists") :
          calls[k].ok /\ calls[k].arg = "exists"
                      /\ calls[k].user \in prevRun.accounts
    /\ \E k \in CallsOf("add_account_identity") :
          LinkOf(k) \in prevRun.identities

\* what the k-th page request of a fetch asks for
KthRequest(k) == <<1 + (k - 1) * 100, 100>>
\* the answer to the k-th page request
KthPage(k) == Page(KthRequest(k)[1], KthRequest(k)[2])
RECURSIVE RunningSum(_)
\* the reported itemsPerPage values of the first k pages, summed
RunningSum(k) ==
    IF k = 0 THEN 0 ELSE RunningSum(k - 1) + KthPage(k).itemsPerPage
RECURSIVE PagesThrough(_)
\* the Resources of the first k pages, in request order
PagesThrough(k) ==
    IF k = 0 THEN <<>> ELSE PagesThrough(k - 1) \o KthPage(k).Resources

\* C16: the k-th page request asks for startIndex 1 + (k-1)*100 and count
\* 100, so start indices strictly increase; every page before the last one
\* requested left the running sum of itemsPerPage below its totalResults,
\* the fetch returns on the first page that does not, and the list it
\* returns is the Resources of all requested pages in request order.
C16_PageWalk ==
    LET gets == CallsOf("GET /scim/Users")
        n    == PageRequests
        nth(k) == Cardinality({j \in gets : j <= k})
    IN  /\ \A k \in gets : calls[k].arg = KthRequest(nth(k))
        /\ \A j, k \in gets : j < k => calls[j].arg[1] < calls[k].arg[1]
        /\ AllAnswered =>
              /\ users_so_far = RunningSum(n)
              /\ iam_users = PagesThrough(n)
              /\ \A k \in 1..(n - 1) :
                    RunningSum(k) < KthPage(k).totalResults
              /\ (pc = "fetch" /\ n > 0) =>
                    RunningSum(n) < KthPage(n).totalResults
              /\ FetchReturned =>
                    /\ n >= 1
                    /\ RunningSum(n) >= KthPage(n).totalResults
                    /\ response.totalResults = KthPage(n).totalResults

\* C16 witness: a fetch has returned after several pages against a directory
\* whose reported total is not its size, with a list that is not the
\* directory
C16_Witness ==
    /\ FetchReturned
    /\ PageRequests >= 2
    /\ ~Consistent
    /\ iam_users # directory
    /\ iam_users # <<>>

\* the quota grants and attribute attaches of this run
GrantOps == {"set_local_account_limit", "add_account_attribute"}
\* the resource scopes of the store, as a set
AllRses == {Rses[j] : j \in 1..Len(Rses)}
\* the resource scopes on which user holds a quota in the set q of quotas
ScopesOf(q, user) == {r \in AllRses : <<user, r>> \in q}
\* accounts the store held when this run began without every quota or
\* without the admin attribute
LeftIncomplete ==
    {u \in prevRun.accounts :
        \/ ScopesOf(prevRun.quotas, u) # AllRses
        \/ u \notin prevRun.attributes}

\* C17: a run issues no quota grant and no attribute attach for a username
\* whose account the store held when the run began, so what an earlier run
\* left ungranted or unattached stays so.
C17_NeverCompleted ==
    /\ \A k \in DOMAIN calls :
          calls[k].op \in GrantOps => calls[k].user \notin prevRun.accounts
    /\ \A u \in prevRun.accounts :
          /\ ScopesOf(quotas, u) = ScopesOf(prevRun.quotas, u)
          /\ u \in attributes <=> u \in prevRun.attributes

\* C17 witness: a later run has completed, having probed an account that an
\* earlier run created and left short of a quota, and it is short of it still
C17_Witness ==
    /\ pc = "done"
    /\ \E u \in LeftIncomplete :
          /\ ScopesOf(prevRun.quotas, u) # AllRses
          /\ ScopesOf(quotas, u) # AllRses
          /\ \E k \in CallsOf("account_exists") :
                calls[k].user = u /\ calls[k].ok /\ calls[k].arg = "exists"

====
